---- MODULE Spec2Model ----
(***************************************************************************)
(* Model of app/tabs/moving_map.py: the moving-map tab of the AVR GUI.     *)
(*                                                                         *)
(* The state is the fields of MovingMapWidget and of the widgets it owns   *)
(* (MovingMapGraphicsWidget, MovingMapGraphicsView, AttitudeIndicator,     *)
(* DroneAltitudeWidget), the Qt call stack of handlers suspended in a      *)
(* nested event loop (processEvents, QMenu.exec_), and the messages the    *)
(* tab has published.  Each handler is one action; the position handler    *)
(* is split where it pumps the event loop.                                 *)
(*                                                                         *)
(* Telemetry values in the state machine are integer-valued floats, for    *)
(* which double arithmetic is exact.  What the code computes on arbitrary  *)
(* doubles is modelled beside it in binary64 arithmetic (Float sections):  *)
(* the coordinate transform (xf), the drone icon and its trail (fm), and   *)
(* the face of the attitude indicator (ai).                                *)
(***************************************************************************)
EXTENDS Integers, Sequences, FiniteSets, TLC

\* ------------------------------------------------------------------ bounds
\* total number of track segments created in a run
MaxAppends == 4
\* UserConfig.max_moving_map_tracks ranges over 0..MaxTracksBound
MaxTracksBound == 2
\* handlers suspended in nested event loops at one time
MaxDepth == 2
\* position updates on doubles between two resets
MaxMoves == 3
\* completed AttitudeIndicator.update() calls on doubles
MaxUpdates == 4

\* --------------------------------------------------------------- constants
PIXELS_PER_METER == 50

\* ------------------------------------------------------------------ inputs
\* AVRFCMPositionLocal payloads
PositionSamples ==
    { [n |-> 5, e |-> 0, d |-> -2],
      [n |-> 5, e |-> 10, d |-> -2],
      [n |-> -3, e |-> 4, d |-> 0] }

\* AVRFCMAttitudeEulerDegrees payload fields
RollInputs == {-200, -180, 30, 180, 200}
PitchInputs == {-40, -25, 10, 25, 40}
YawInputs == {-90, 0, 45, 400}

\* a few whole payloads (roll, pitch, yaw)
AttitudeSamples == { <<200, 40, 400>>, <<-30, -10, -90>>, <<0, -40, 45>> }

\* scene points the user can drag the view centre to
PanTargets == { <<0, 0>>, <<120, -60>> }

\* scene points of a right click (after mapToScene)
ClickPoints == { <<500, -250>>, <<-150, 100>> }

\* payload.d of the position samples that exercise the altitude widget
AltitudeInputs == {0, -20, -30, 10, -10}

\* boundingRect() of drone_top_icon.svg (width, height): set by the asset
DroneIconRects == { <<80, 80>>, <<64, 48>> }

VARIABLES
    tracks,             \* MovingMapGraphicsWidget._tracks: sequence of line items
    scene_lines,        \* ids of the line items currently in the canvas
    next_id,            \* identity of the next QGraphicsLineItem created
    appended,           \* history: segments created since the list was last emptied by clear_tracks
    max_tracks,         \* UserConfig.max_moving_map_tracks
    drone_icon_rect,    \* drone_icon.boundingRect(): <<width, height>>
    drone_pos,          \* drone_icon.pos(): top-left corner <<x, y>>
    drone_rotation,     \* drone_icon.rotation()
    gw_follow_drone,    \* MovingMapGraphicsWidget._follow_drone
    follow_drone,       \* MovingMapWidget.follow_drone
    button_text,        \* follow_drone_button.text()
    drag_mode,          \* view.dragMode()
    scroll_policy,      \* view scroll bar policy (both bars)
    view_center,        \* scene point shown at the centre of the view
    drone_airborne,     \* MovingMapGraphicsWidget.drone_airborne
    ever_airborne,      \* history: an airborne=true message has been received
    published,          \* messages passed to send_message
    roll,               \* AttitudeIndicator._roll
    pitch,              \* AttitudeIndicator._pitch
    altitude_number,    \* value shown by DroneAltitudeWidget.altitude_number
    altitude_norm,      \* norm_altitude that places DroneAltitudeWidget.drone_icon: [num, den]
    stack,              \* handlers suspended in a nested event loop, innermost last
    xf,                 \* one NED sample taken through the coordinate transform and back
    fm,                 \* the drone icon and its trail on doubles: pos, tracks, lines
    ai                  \* AttitudeIndicator on doubles: roll, pitch, deltas, face offset

mapVars == <<tracks, scene_lines, next_id, appended, max_tracks, drone_icon_rect,
             drone_pos, drone_rotation>>
followVars == <<gw_follow_drone, follow_drone, button_text, drag_mode,
                scroll_policy, view_center>>
commandVars == <<drone_airborne, ever_airborne, published>>
indicatorVars == <<roll, pitch, altitude_number, altitude_norm>>
doubleVars == <<xf, fm, ai>>

vars == <<tracks, scene_lines, next_id, appended, max_tracks, drone_icon_rect,
          drone_pos, drone_rotation, gw_follow_drone, follow_drone, button_text,
          drag_mode, scroll_policy, view_center, drone_airborne, ever_airborne,
          published, roll, pitch, altitude_number, altitude_norm, stack, xf, fm, ai>>

\* ----------------------------------------------------------------- helpers
Max(a, b) == IF a >= b THEN a ELSE b
Min(a, b) == IF a <= b THEN a ELSE b
Ids(s) == { s[i].id : i \in 1..Len(s) }

\* app.lib.calc.constrain
constrain(v, lo, hi) == IF v < lo THEN lo ELSE IF v > hi THEN hi ELSE v

\* app.lib.calc.normalize_value: value mapped linearly from [min_value, max_value]
\* and clamped to [0, 1].  The result is the fraction num / den.
normalize_value(value, min_value, max_value) ==
    [num |-> constrain(value - min_value, 0, max_value - min_value),
     den |-> max_value - min_value]

\* ------------------------------------------------------- AttitudeIndicator
\* set_roll without the constrain call
set_roll_unclamped(v) == v
set_roll(v) == constrain(v, -180, 180)
set_pitch(v) == constrain(v, -25, 25)

\* ----------------------------------------------------- DroneAltitudeWidget
\* DroneAltitudeWidget.set_altitude: the number displayed is the flipped altitude
set_altitude(altitude) == -altitude

\* the altitude normalized without the flip
norm_altitude_unflipped(altitude) == normalize_value(altitude, 0, 20)
\* DroneAltitudeWidget.set_altitude: the flipped altitude normalized over 0..20;
\* the icon is drawn norm_altitude * usable_canvas_height above the ground
norm_altitude(altitude) == normalize_value(-altitude, 0, 20)

\* ------------------------------------------------- MovingMapGraphicsWidget
\* centre of the drone icon: corner plus half the bounding rectangle
drone_center(pos, rect) == <<pos[1] + rect[1] \div 2, pos[2] + rect[2] \div 2>>
\* corner of the drone icon for a given centre
drone_corner(c, rect) == <<c[1] - rect[1] \div 2, c[2] - rect[2] \div 2>>

\* NED to scene: x is north, y is east in the handler's parameter names
new_drone_center(x, y) == <<y * PIXELS_PER_METER, (-x) * PIXELS_PER_METER>>

\* the limit never applied
limit_tracks_never(tr, limit) == tr
\* the newest line popped instead of the oldest
limit_tracks_newest(tr, limit) == IF Len(tr) > limit THEN SubSeq(tr, 1, Len(tr) - 1) ELSE tr
\* a loop popping until the list is within the limit
limit_tracks_loop(tr, limit) ==
    IF Len(tr) > limit THEN SubSeq(tr, Len(tr) - limit + 1, Len(tr)) ELSE tr
\* the limit on the number of tracks: one pop(0) when the list is over the limit
limit_tracks(tr, limit) == IF Len(tr) > limit THEN Tail(tr) ELSE tr

\* view.centerOn(self.drone_icon)
centerOn(pos, rect) == drone_center(pos, rect)

\* follow_drone(follow): the panning mode that goes with the flag
follow_drag_mode(follow) == IF follow THEN "NoDrag" ELSE "ScrollHandDrag"
follow_scroll_policy(follow) == IF follow THEN "ScrollBarAlwaysOff" ELSE "ScrollBarAsNeeded"

\* ------------------------------------------------------------------ Float
\* Python floats are IEEE 754 binary64.  A finite normal double is
\* [s, m, e]: sign bit s, 53-bit significand m in [2^52, 2^53) and exponent e,
\* with value (-1)^s * m * 2^e.  The significand is kept as four limbs of 15
\* bits, least significant first, so that every intermediate value fits a
\* 32-bit integer.  Multiplication and division round to nearest, ties to
\* even, as the hardware does.
LimbBase == 2^15
Two52 == <<0, 0, 0, 128>>
Two53 == <<0, 0, 0, 256>>
Float(s, l0, l1, l2, l3, e) == [s |-> s, m |-> <<l0, l1, l2, l3>>, e |-> e]

\* limbs times a small integer
MulSmall(a, c) ==
    LET p0 == a[1] * c
        p1 == a[2] * c + p0 \div LimbBase
        p2 == a[3] * c + p1 \div LimbBase
        p3 == a[4] * c + p2 \div LimbBase
    IN  <<p0 % LimbBase, p1 % LimbBase, p2 % LimbBase, p3>>

\* limbs divided by a small integer: quotient limbs and remainder
DivSmall(a, c) ==
    LET t3 == a[4]
        t2 == (t3 % c) * LimbBase + a[3]
        t1 == (t2 % c) * LimbBase + a[2]
        t0 == (t1 % c) * LimbBase + a[1]
    IN  [q |-> <<t0 \div c, t1 \div c, t2 \div c, t3 \div c>>, r |-> t0 % c]

AddOne(a) ==
    LET p0 == a[1] + 1
        p1 == a[2] + p0 \div LimbBase
        p2 == a[3] + p1 \div LimbBase
        p3 == a[4] + p2 \div LimbBase
    IN  <<p0 % LimbBase, p1 % LimbBase, p2 % LimbBase, p3>>

SubOne(a) ==
    IF a[1] > 0 THEN <<a[1] - 1, a[2], a[3], a[4]>>
    ELSE IF a[2] > 0 THEN <<LimbBase - 1, a[2] - 1, a[3], a[4]>>
    ELSE IF a[3] > 0 THEN <<LimbBase - 1, LimbBase - 1, a[3] - 1, a[4]>>
    ELSE <<LimbBase - 1, LimbBase - 1, LimbBase - 1, a[4] - 1>>

\* the integer nearest to a / c, ties to even
RoundDiv(a, c) ==
    LET d == DivSmall(a, c)
        up == 2 * d.r > c \/ (2 * d.r = c /\ d.q[1] % 2 = 1)
    IN  IF up THEN AddOne(d.q) ELSE d.q

\* a significand in [2^52, 2^53]: its top limb holds bits 45 and up
Normal(a) == a[4] \in 128..255

\* a rounded significand and its exponent as a double
Renormalize(s, m, e) ==
    IF m = Two53 THEN [s |-> s, m |-> Two52, e |-> e + 1] ELSE [s |-> s, m |-> m, e |-> e]

\* unary minus: exact
fneg(f) == [f EXCEPT !.s = 1 - f.s]

\* f * c for a small positive integer c
fmul(f, c) ==
    LET p == MulSmall(f.m, c)
        k == CHOOSE k \in 0..7 : Normal(DivSmall(p, 2^k).q)
    IN  Renormalize(f.s, RoundDiv(p, 2^k), f.e + k)

\* the product f * c is exact (nothing is rounded away)
fmul_exact(f, c) ==
    LET p == MulSmall(f.m, c)
        k == CHOOSE k \in 0..7 : Normal(DivSmall(p, 2^k).q)
    IN  DivSmall(p, 2^k).r = 0

\* f / c for a small positive integer c
fdiv(f, c) ==
    LET j == CHOOSE j \in 0..7 : Normal(DivSmall(MulSmall(f.m, 2^j), c).q)
    IN  Renormalize(f.s, RoundDiv(MulSmall(f.m, 2^j), c), f.e - j)

\* the next double away from zero and the next towards zero
fsucc(f) == Renormalize(f.s, AddOne(f.m), f.e)
fpred(f) ==
    IF f.m = Two52 THEN [f EXCEPT !.m = SubOne(Two53), !.e = f.e - 1]
    ELSE [f EXCEPT !.m = SubOne(f.m)]

\* NED to scene on doubles: x = e * scale, y = -n * scale
new_drone_center_f(n, e) ==
    <<fmul(e, PIXELS_PER_METER), fmul(fneg(n), PIXELS_PER_METER)>>

\* the inversion of y forgotten
local_coord_f_uninverted(x, y) ==
    <<fdiv(y, PIXELS_PER_METER), fdiv(x, PIXELS_PER_METER)>>
\* scene to NED on doubles: n = -y / scale, e = x / scale
local_coord_f(x, y) ==
    <<fdiv(fneg(y), PIXELS_PER_METER), fdiv(x, PIXELS_PER_METER)>>

\* payload values n and e
FloatSamples ==
    { Float(0, 0, 0, 0, 160, -50),              \* 5.0
      Float(0, 0, 0, 0, 160, -49),              \* 10.0
      Float(1, 0, 0, 0, 192, -51),              \* -3.0
      Float(0, 6554, 13107, 26214, 204, -56),   \* 0.1
      Float(0, 20972, 15728, 11796, 143, -56),  \* 0.07
      Float(1, 5767, 7602, 32735, 199, -45),    \* -199.999
      Float(0, 2448, 21243, 17981, 242, -48),   \* 30.31859454455258
      Float(0, 21845, 10922, 21845, 170, -54),  \* 1/3
      Float(0, 32767, 32767, 32767, 255, -52),  \* 2 - 2^-52
      Float(0, 13107, 26214, 19660, 233, -50) } \* 7.3

\* ------------------------------------------- Float: sums and products
\* The sum, difference or product of two doubles is computed exactly on a
\* natural number of any length (a sequence of limbs, least significant first,
\* no zero limb at the top) and rounded once to 53 bits, to nearest, ties to
\* even.  Zero is the double with significand 0; the sign of a zero is not
\* kept, since -0.0 == 0.0 and no operation here tells them apart.
LimbBits == 15
FZero == [s |-> 0, m |-> <<0, 0, 0, 0>>, e |-> 0]
IsZero(f) == f.m = <<0, 0, 0, 0>>

RECURSIVE Zeros(_)
Zeros(n) == IF n <= 0 THEN <<>> ELSE <<0>> \o Zeros(n - 1)
Pad(a, n) == a \o Zeros(n - Len(a))
Limbs4(a) == LET b == Pad(a, 4) IN <<b[1], b[2], b[3], b[4]>>

RECURSIVE BigTrim(_)
BigTrim(a) ==
    IF a # <<>> /\ a[Len(a)] = 0 THEN BigTrim(SubSeq(a, 1, Len(a) - 1)) ELSE a

RECURSIVE BigAddCarry(_, _, _)
BigAddCarry(a, b, carry) ==
    IF a = <<>> THEN (IF carry = 0 THEN <<>> ELSE <<carry>>)
    ELSE LET t == a[1] + b[1] + carry
         IN  <<t % LimbBase>> \o BigAddCarry(Tail(a), Tail(b), t \div LimbBase)
BigAdd(a, b) ==
    LET n == Max(Len(a), Len(b)) IN BigTrim(BigAddCarry(Pad(a, n), Pad(b, n), 0))

RECURSIVE BigSubBorrow(_, _, _)
BigSubBorrow(a, b, borrow) ==
    IF a = <<>> THEN <<>>
    ELSE LET t == a[1] - b[1] - borrow
         IN  <<(t + LimbBase) % LimbBase>>
                 \o BigSubBorrow(Tail(a), Tail(b), IF t < 0 THEN 1 ELSE 0)
\* a - b for a >= b
BigSub(a, b) ==
    LET n == Max(Len(a), Len(b)) IN BigTrim(BigSubBorrow(Pad(a, n), Pad(b, n), 0))

RECURSIVE BigLess(_, _)
\* a < b
BigLess(a, b) ==
    IF Len(a) # Len(b) THEN Len(a) < Len(b)
    ELSE IF a = <<>> THEN FALSE
    ELSE IF a[Len(a)] # b[Len(b)] THEN a[Len(a)] < b[Len(b)]
    ELSE BigLess(SubSeq(a, 1, Len(a) - 1), SubSeq(b, 1, Len(b) - 1))

RECURSIVE BigMulSmallCarry(_, _, _)
BigMulSmallCarry(a, c, carry) ==
    IF a = <<>> THEN (IF carry = 0 THEN <<>> ELSE <<carry>>)
    ELSE LET t == a[1] * c + carry
         IN  <<t % LimbBase>> \o BigMulSmallCarry(Tail(a), c, t \div LimbBase)
\* a * c for a limb c
BigMulSmall(a, c) == BigTrim(BigMulSmallCarry(a, c, 0))

RECURSIVE BigDivSmall(_, _, _)
\* (r * LimbBase^Len(a) + a) divided by c, for r < c: quotient limbs and remainder
BigDivSmall(a, c, r) ==
    IF a = <<>> THEN [q |-> <<>>, r |-> r]
    ELSE LET t == r * LimbBase + a[Len(a)]
             low == BigDivSmall(SubSeq(a, 1, Len(a) - 1), c, t % c)
         IN  [q |-> low.q \o <<t \div c>>, r |-> low.r]

RECURSIVE BigMul(_, _)
BigMul(a, b) ==
    IF b = <<>> THEN <<>>
    ELSE BigAdd(BigMulSmall(a, b[1]), <<0>> \o BigMul(a, Tail(b)))

\* a * 2^k
BigShl(a, k) ==
    BigTrim(Zeros(k \div LimbBits) \o BigMulSmallCarry(a, 2^(k % LimbBits), 0))
\* a / 2^k: the quotient, and whether anything was shifted out
BigShr(a, k) ==
    LET w == Min(k \div LimbBits, Len(a))
        d == BigDivSmall(SubSeq(a, w + 1, Len(a)), 2^(k % LimbBits), 0)
    IN  [q |-> BigTrim(d.q),
         sticky |-> d.r # 0 \/ \E i \in 1..w : a[i] # 0]
\* number of bits of a > 0
BitLen(a) ==
    LimbBits * (Len(a) - 1)
        + CHOOSE n \in 1..LimbBits : 2^(n - 1) <= a[Len(a)] /\ a[Len(a)] < 2^n

\* the double nearest to (-1)^s * a * 2^e, ties to even
RoundBig(s, a, e) ==
    IF a = <<>> THEN FZero
    ELSE LET len == BitLen(a)
         IN  IF len <= 53
             THEN [s |-> s, m |-> Limbs4(BigShl(a, 53 - len)), e |-> e - (53 - len)]
             ELSE LET t == BigShr(a, len - 54)
                      h == BigDivSmall(t.q, 2, 0)
                      up == h.r = 1 /\ (t.sticky \/ h.q[1] % 2 = 1)
                      q == Limbs4(BigTrim(h.q))
                  IN  Renormalize(s, IF up THEN AddOne(q) ELSE q, e + len - 53)

\* a + b
fadd(a, b) ==
    IF IsZero(a) THEN (IF IsZero(b) THEN FZero ELSE b)
    ELSE IF IsZero(b) THEN a
    ELSE LET e == Min(a.e, b.e)
             x == BigShl(a.m, a.e - e)
             y == BigShl(b.m, b.e - e)
         IN  IF a.s = b.s THEN RoundBig(a.s, BigAdd(x, y), e)
             ELSE IF BigLess(x, y) THEN RoundBig(b.s, BigSub(y, x), e)
             ELSE RoundBig(a.s, BigSub(x, y), e)
\* a - b
fsub(a, b) == fadd(a, IF IsZero(b) THEN FZero ELSE fneg(b))
\* a * b
fmulf(a, b) ==
    IF IsZero(a) \/ IsZero(b) THEN FZero
    ELSE RoundBig((a.s + b.s) % 2, BigMul(BigTrim(a.m), BigTrim(b.m)), a.e + b.e)

\* an int of the program as a double (|n| < 2^15)
FInt(n) ==
    IF n = 0 THEN FZero ELSE RoundBig(IF n < 0 THEN 1 ELSE 0, <<IF n < 0 THEN -n ELSE n>>, 0)
\* unary minus of a double that may be zero
fnegz(f) == IF IsZero(f) THEN FZero ELSE fneg(f)

\* |a - b| exactly, as mag * 2^e
AbsDiff(a, b) ==
    LET ea == IF IsZero(a) THEN b.e ELSE a.e
        eb == IF IsZero(b) THEN a.e ELSE b.e
        e == Min(ea, eb)
        x == BigShl(BigTrim(a.m), ea - e)
        y == BigShl(BigTrim(b.m), eb - e)
    IN  [mag |-> IF IsZero(a) \/ IsZero(b) \/ a.s = b.s
                 THEN (IF BigLess(x, y) THEN BigSub(y, x) ELSE BigSub(x, y))
                 ELSE BigAdd(x, y),
         e |-> e]
\* |a - b| <= c * 2^k for a small natural c
WithinPow2(a, b, c, k) ==
    LET d == AbsDiff(a, b)
        e == Min(d.e, k)
    IN  ~BigLess(BigShl(<<c>>, k - e), BigShl(d.mag, d.e - e))
\* f is a whole number
IsWhole(f) ==
    IsZero(f) \/ f.e >= 0 \/ (f.e > -53 /\ ~BigShr(f.m, -f.e).sticky)

\* ---------------------------------- MovingMapGraphicsWidget on doubles
\* boundingRect().width() / 2 and boundingRect().height() / 2
half_rect_f(rect) == <<fdiv(FInt(rect[1]), 2), fdiv(FInt(rect[2]), 2)>>
\* current centre of the drone icon: corner plus half the bounding rectangle
drone_center_f(pos, half) == <<fadd(pos[1], half[1]), fadd(pos[2], half[2])>>
\* the icon's corner put at the new centre itself
drone_corner_f_same(c, half) == c
\* new top-left corner of the drone icon: centre minus half the bounding rectangle
drone_corner_f(c, half) == <<fsub(c[1], half[1]), fsub(c[2], half[2])>>
\* new centre of the drone icon: y * PIXELS_PER_METER, -x * PIXELS_PER_METER
new_center_f(x, y) ==
    <<fmulf(y, FInt(PIXELS_PER_METER)), fmulf(fnegz(x), FInt(PIXELS_PER_METER))>>
\* the origin of the scene
OriginF == <<FZero, FZero>>
\* the corner that centres the icon on the origin: -width / 2, -height / 2
origin_corner_f(rect) ==
    <<fdiv(fnegz(FInt(rect[1])), 2), fdiv(fnegz(FInt(rect[2])), 2)>>

\* payloads (n, e): whole metres, and fractions of a metre
FloatPositions ==
    { <<Float(0, 0, 0, 0, 160, -50), FZero>>,                         \* (5.0, 0.0)
      <<Float(0, 0, 0, 0, 160, -50), Float(0, 0, 0, 0, 160, -49)>>,   \* (5.0, 10.0)
      <<Float(1, 0, 0, 0, 192, -51),
        Float(0, 20972, 15728, 11796, 143, -56)>>,                    \* (-3.0, 0.07)
      <<Float(0, 6554, 13107, 26214, 204, -56),
        Float(1, 5767, 7602, 32735, 199, -45)>> }                     \* (0.1, -199.999)

\* ------------------------------------------- AttitudeIndicator on doubles
\* _original_pizel_per_deg = 1.7
original_pizel_per_deg == Float(0, 13107, 26214, 19660, 217, -52)
\* _original_width and _original_height; the view has this fixed size
original_width == 240
\* width() / _original_width, height() / _original_height: 240 / 240
face_scale == FInt(original_width \div original_width)

\* roll and pitch values passed to set_roll and set_pitch
IndicatorRolls == {-200, 30, 90}
IndicatorPitches == {-40, 10}

\* math.sin(math.radians(roll)) as CPython returns it
sin_deg(r) ==
    CASE r = -180 -> Float(1, 23559, 26152, 6296, 141, -105)   \* -1.2246467991473532e-16
      [] r = 0 -> FZero
      [] r = 30 -> Float(0, 32767, 32767, 32767, 255, -54)     \* 0.49999999999999994
      [] r = 90 -> Float(0, 0, 0, 0, 128, -52)                 \* 1.0
\* math.cos(math.radians(roll)) as CPython returns it
cos_deg(r) ==
    CASE r = -180 -> Float(1, 0, 0, 0, 128, -52)               \* -1.0
      [] r = 0 -> Float(0, 0, 0, 0, 128, -52)                  \* 1.0
      [] r = 30 -> Float(0, 19627, 20656, 23019, 221, -53)     \* 0.8660254037844387
      [] r = 90 -> Float(0, 23559, 26152, 6296, 141, -106)     \* 6.123233995736766e-17

\* _update_view: the absolute delta of the face for a roll and a pitch
face_delta(r, p) ==
    LET delta == fmulf(original_pizel_per_deg, FInt(p))
    IN  <<fmulf(fmulf(face_scale, delta), sin_deg(r)),
          fmulf(fmulf(face_scale, delta), cos_deg(r))>>
\* _item_face.moveBy(new - old)
move_face(face, new, old) ==
    <<fadd(face[1], fsub(new[1], old[1])), fadd(face[2], fsub(new[2], old[2]))>>
\* AttitudeIndicator._update_view
update_view(a) ==
    LET new == face_delta(a.roll, a.pitch)
    IN  [a EXCEPT !.new = new, !.face = move_face(a.face, new, a.old)]
\* update() without the copy of the new delta
face_delta_old_kept(a) == a.old
\* update(): the old delta after the redraw
face_delta_old(a) == a.new
\* AttitudeIndicator.update
update(a) ==
    LET v == update_view(a)
    IN  [v EXCEPT !.old = face_delta_old(v), !.updates = a.updates + 1]

\* ----------------------------------------------------------- initial state
Init ==
    /\ tracks = <<>>
    /\ scene_lines = {}
    /\ next_id = 0
    /\ appended = 0
    /\ max_tracks \in 0..MaxTracksBound
    /\ drone_icon_rect \in DroneIconRects
    /\ drone_pos = drone_corner(<<0, 0>>, drone_icon_rect)
    /\ drone_rotation = 0
    /\ gw_follow_drone = TRUE
    /\ follow_drone = TRUE
    /\ button_text = "Unfollow Drone"
    /\ drag_mode = follow_drag_mode(TRUE)
    /\ scroll_policy = follow_scroll_policy(TRUE)
    /\ view_center = centerOn(drone_pos, drone_icon_rect)
    /\ drone_airborne = FALSE
    /\ ever_airborne = FALSE
    /\ published = {}
    /\ roll = 0
    /\ pitch = 0
    /\ altitude_number = set_altitude(0)
    /\ altitude_norm = norm_altitude(0)
    /\ stack = <<>>
    /\ xf = [pc |-> "idle", ne |-> <<>>, xy |-> <<>>, back |-> <<>>]
    /\ fm = [pos |-> origin_corner_f(drone_icon_rect), tracks |-> <<>>, lines |-> <<>>]
    /\ ai = update_view([roll |-> 0, pitch |-> 0, old |-> OriginF, new |-> OriginF,
                         face |-> OriginF, updates |-> 0])

\* ------------------------------------------------------------- call stack
\* QGuiApplication.processEvents() and QMenu.exec_() run an event loop inside
\* the handler that calls them: clicks and queued telemetry messages that are
\* pending are dispatched there, and the calling handler goes on only after the
\* handlers started inside it have returned.
\* A frame of a handler suspended in a nested event loop: kind "pos" is
\* update_drone_position inside processEvents (d is the payload's d, still to be
\* passed to set_altitude), kind "menu" is contextMenuEvent inside menu.exec_.
PosFrame(d) ==
    [kind |-> "pos", d |-> d, open |-> FALSE, offered |-> {}, ne |-> <<>>]
MenuFrame(offered, ne) ==
    [kind |-> "menu", d |-> 0, open |-> TRUE, offered |-> offered, ne |-> ne]

\* a popup menu is on screen: it grabs the mouse, so no other widget gets input
MenuOpen == \E i \in 1..Len(stack) : stack[i].kind = "menu" /\ stack[i].open
Pop(st) == SubSeq(st, 1, Len(st) - 1)
Top(st) == st[Len(st)]

\* ------------------------------------------------------------ track trail
\* the line item update_drone_position adds to the canvas
new_track(id, from, to, z) == [id |-> id, from |-> from, to |-> to, value |-> -z]

\* MovingMapGraphicsWidget.update_drone_position up to the icon move
MoveDrone(x, y, z) ==
    LET current_drone_center == drone_center(drone_pos, drone_icon_rect)
        new_center == new_drone_center(x, y)
        added == Append(tracks, new_track(next_id, current_drone_center, new_center, z))
        kept == limit_tracks(added, max_tracks)
    IN  /\ tracks' = kept
        /\ scene_lines' = (scene_lines \cup {next_id}) \ (Ids(added) \ Ids(kept))
        /\ next_id' = next_id + 1
        /\ appended' = appended + 1
        /\ drone_pos' = drone_corner(new_center, drone_icon_rect)

\* MovingMapWidget.update_position_local, up to processEvents() when following,
\* to its end otherwise
update_position_local(payload) ==
    /\ next_id < MaxAppends
    /\ MoveDrone(payload.n, payload.e, payload.d)
    /\ IF gw_follow_drone
       THEN /\ Len(stack) < MaxDepth
            /\ stack' = Append(stack, PosFrame(payload.d))
            /\ UNCHANGED <<altitude_number, altitude_norm>>
       ELSE /\ altitude_number' = set_altitude(payload.d)
            /\ altitude_norm' = norm_altitude(payload.d)
            /\ UNCHANGED stack
    /\ UNCHANGED <<max_tracks, drone_icon_rect, drone_rotation, followVars,
                   commandVars, roll, pitch, doubleVars>>

\* processEvents() returns: centerOn the icon, then set_altitude(payload.d)
update_position_local_resume ==
    /\ stack # <<>>
    /\ Top(stack).kind = "pos"
    /\ view_center' = centerOn(drone_pos, drone_icon_rect)
    /\ altitude_number' = set_altitude(Top(stack).d)
    /\ altitude_norm' = norm_altitude(Top(stack).d)
    /\ stack' = Pop(stack)
    /\ UNCHANGED <<mapVars, gw_follow_drone, follow_drone, button_text, drag_mode,
                   scroll_policy, commandVars, roll, pitch, doubleVars>>

\* clear_tracks forgetting the list and the canvas
ClearTracksKept ==
    /\ UNCHANGED <<scene_lines, tracks>>
    /\ appended' = 0

\* MovingMapGraphicsWidget.clear_tracks
ClearTracks ==
    /\ scene_lines' = scene_lines \ Ids(tracks)
    /\ tracks' = <<>>
    /\ appended' = 0

\* the "Clear Tracks" button
clear_tracks ==
    /\ ~MenuOpen
    /\ ClearTracks
    /\ UNCHANGED <<next_id, max_tracks, drone_icon_rect, drone_pos, drone_rotation,
                   followVars, commandVars, indicatorVars, stack, doubleVars>>

\* UserConfig.max_moving_map_tracks is given another value
set_max_moving_map_tracks(limit) ==
    /\ limit # max_tracks
    /\ max_tracks' = limit
    /\ UNCHANGED <<tracks, scene_lines, next_id, appended, drone_icon_rect, drone_pos,
                   drone_rotation, followVars, commandVars, indicatorVars, stack, doubleVars>>

\* ------------------------------------------------------------ follow mode
\* MovingMapGraphicsWidget.follow_drone(follow)
gw_follow(follow, center) ==
    [gw_follow_drone |-> follow,
     drag_mode |-> follow_drag_mode(follow),
     scroll_policy |-> follow_scroll_policy(follow),
     view_center |-> IF follow THEN centerOn(drone_pos, drone_icon_rect) ELSE center]

\* the same text on both branches
follow_button_text_same(follow) == "Follow Drone"
\* the button text toggle_follow_drone sets for the new flag
follow_button_text(follow) == IF follow THEN "Unfollow Drone" ELSE "Follow Drone"

\* MovingMapWidget.toggle_follow_drone as a function of the controller's state
toggle_result(follow, center) ==
    [follow_drone |-> ~follow,
     button_text |-> follow_button_text(~follow),
     gw |-> gw_follow(~follow, center)]

toggle_follow_drone ==
    /\ ~MenuOpen
    /\ LET r == toggle_result(follow_drone, view_center)
       IN  /\ follow_drone' = r.follow_drone
           /\ button_text' = r.button_text
           /\ gw_follow_drone' = r.gw.gw_follow_drone
           /\ drag_mode' = r.gw.drag_mode
           /\ scroll_policy' = r.gw.scroll_policy
           /\ view_center' = r.gw.view_center
    /\ UNCHANGED <<mapVars, commandVars, indicatorVars, stack, doubleVars>>

\* the user drags the view: possible in ScrollHandDrag mode only
user_pan(p) ==
    /\ ~MenuOpen
    /\ drag_mode = "ScrollHandDrag"
    /\ p # view_center
    /\ view_center' = p
    /\ UNCHANGED <<mapVars, gw_follow_drone, follow_drone, button_text, drag_mode,
                   scroll_policy, commandVars, indicatorVars, stack, doubleVars>>

\* --------------------------------------------------------------- attitude
\* MovingMapGraphicsWidget.update_drone_attitude: the rotation given to the icon
update_drone_attitude(yaw) == yaw

update_euler_attitude(r, p, y) ==
    /\ drone_rotation' = update_drone_attitude(y)
    /\ roll' = set_roll(r)
    /\ pitch' = set_pitch(p)
    /\ UNCHANGED <<tracks, scene_lines, next_id, appended, max_tracks, drone_icon_rect,
                   drone_pos, followVars, commandVars, altitude_number, altitude_norm,
                   stack, doubleVars>>

\* ------------------------------------------------------------------ reset
\* MovingMapWidget.clear: attitude_indicator.reset(), moving_map_widget.reset(),
\* altitude_indicator.reset()
clear ==
    /\ pitch' = set_pitch(0)
    /\ roll' = set_roll(0)
    /\ drone_pos' = drone_corner(<<0, 0>>, drone_icon_rect)
    /\ drone_rotation' = 0
    /\ ClearTracks
    /\ altitude_number' = set_altitude(0)
    /\ altitude_norm' = norm_altitude(0)
    /\ UNCHANGED <<next_id, max_tracks, drone_icon_rect, followVars, commandVars, stack, doubleVars>>

\* --------------------------------------------------------------- commands
update_airborne_state(airborne) ==
    /\ drone_airborne' = airborne
    /\ ever_airborne' = (ever_airborne \/ airborne)
    /\ UNCHANGED <<mapVars, followVars, published, indicatorVars, stack, doubleVars>>

\* scene point to NED: invert y, divide by pixels per meter
local_coord_ne(p) == <<(-p[2]) \div PIXELS_PER_METER, p[1] \div PIXELS_PER_METER>>

\* every action offered whatever the flag
menu_actions_all(airborne) == {"Goto", "Land", "Takeoff"}
\* the actions contextMenuEvent adds to the menu
menu_actions(airborne) == IF airborne THEN {"Goto", "Land"} ELSE {"Takeoff"}

\* the message an action's triggered slot passes to send_message
action_message(a, ne) ==
    IF a = "Goto" THEN [topic |-> "avr/fcm/action/goto/local", payload |-> ne]
    ELSE IF a = "Land" THEN [topic |-> "avr/fcm/action/land", payload |-> <<>>]
    ELSE [topic |-> "avr/fcm/action/takeoff", payload |-> <<>>]

\* right click: build the menu and enter menu.exec_
contextMenuEvent(p) ==
    /\ ~MenuOpen
    /\ Len(stack) < MaxDepth
    /\ stack' = Append(stack, MenuFrame(menu_actions(drone_airborne), local_coord_ne(p)))
    /\ UNCHANGED <<mapVars, followVars, commandVars, indicatorVars, doubleVars>>

\* the user picks an action of the open menu
menu_triggered(i, a) ==
    /\ stack[i].kind = "menu"
    /\ stack[i].open
    /\ a \in stack[i].offered
    /\ published' = published \cup {action_message(a, stack[i].ne)}
    /\ stack' = [stack EXCEPT ![i].open = FALSE]
    /\ UNCHANGED <<mapVars, followVars, drone_airborne, ever_airborne, indicatorVars, doubleVars>>

\* the user closes the open menu without picking anything
menu_dismissed(i) ==
    /\ stack[i].kind = "menu"
    /\ stack[i].open
    /\ stack' = [stack EXCEPT ![i].open = FALSE]
    /\ UNCHANGED <<mapVars, followVars, commandVars, indicatorVars, doubleVars>>

\* menu.exec_ returns once the menu is closed and the loops above it have returned
contextMenuEvent_return ==
    /\ stack # <<>>
    /\ Top(stack).kind = "menu"
    /\ ~Top(stack).open
    /\ stack' = Pop(stack)
    /\ UNCHANGED <<mapVars, followVars, commandVars, indicatorVars, doubleVars>>

\* ------------------------------------------------- transform round trip
\* a position payload (n, e) arrives
transform_sample(n, e) ==
    /\ xf.pc \in {"idle", "world"}
    /\ xf' = [pc |-> "sample", ne |-> <<n, e>>, xy |-> <<>>, back |-> <<>>]
    /\ UNCHANGED <<mapVars, followVars, commandVars, indicatorVars, stack, fm, ai>>

\* update_drone_position computes the icon's new centre
transform_to_screen ==
    /\ xf.pc = "sample"
    /\ xf' = [xf EXCEPT !.pc = "screen", !.xy = new_drone_center_f(xf.ne[1], xf.ne[2])]
    /\ UNCHANGED <<mapVars, followVars, commandVars, indicatorVars, stack, fm, ai>>

\* contextMenuEvent at that scene point computes the NED coordinates
transform_to_world ==
    /\ xf.pc = "screen"
    /\ xf' = [xf EXCEPT !.pc = "world", !.back = local_coord_f(xf.xy[1], xf.xy[2])]
    /\ UNCHANGED <<mapVars, followVars, commandVars, indicatorVars, stack, fm, ai>>

TransformSampleStep == \E n \in FloatSamples, e \in FloatSamples : transform_sample(n, e)

\* ------------------------------------------------ the trail on doubles
\* fm.pos is drone_icon.pos(), fm.tracks is _tracks, and fm.lines is the history
\* of the lines passed to canvas.addLine since construction or the last reset.
\* MovingMapGraphicsWidget.update_drone_position(x, y, z), its geometry
update_drone_position_f(x, y) ==
    /\ Len(fm.lines) < MaxMoves
    /\ LET half == half_rect_f(drone_icon_rect)
           current_drone_center == drone_center_f(fm.pos, half)
           new_drone_center_xy == new_center_f(x, y)
           line == [from |-> current_drone_center, to |-> new_drone_center_xy,
                    ne |-> <<x, y>>]
       IN  fm' = [pos |-> drone_corner_f(new_drone_center_xy, half),
                  tracks |-> limit_tracks(Append(fm.tracks, line), max_tracks),
                  lines |-> Append(fm.lines, line)]
    /\ UNCHANGED <<mapVars, followVars, commandVars, indicatorVars, stack, xf, ai>>

\* MovingMapGraphicsWidget.clear_tracks
clear_tracks_f ==
    /\ fm.tracks # <<>>
    /\ fm' = [fm EXCEPT !.tracks = <<>>]
    /\ UNCHANGED <<mapVars, followVars, commandVars, indicatorVars, stack, xf, ai>>

\* MovingMapGraphicsWidget.reset
reset_f ==
    /\ fm.lines # <<>>
    /\ fm' = [pos |-> origin_corner_f(drone_icon_rect), tracks |-> <<>>, lines |-> <<>>]
    /\ UNCHANGED <<mapVars, followVars, commandVars, indicatorVars, stack, xf, ai>>

FloatPositionStep == \E p \in FloatPositions : update_drone_position_f(p[1], p[2])

\* ------------------------------------------- the indicator on doubles
\* ai.face is the offset of _item_face from where it was constructed, and
\* ai.updates counts the completed calls of update().
indicator_set_roll(v) ==
    /\ ai' = [ai EXCEPT !.roll = set_roll(v)]
    /\ UNCHANGED <<mapVars, followVars, commandVars, indicatorVars, stack, xf, fm>>

indicator_set_pitch(v) ==
    /\ ai' = [ai EXCEPT !.pitch = set_pitch(v)]
    /\ UNCHANGED <<mapVars, followVars, commandVars, indicatorVars, stack, xf, fm>>

indicator_update ==
    /\ ai.updates < MaxUpdates
    /\ ai' = update(ai)
    /\ UNCHANGED <<mapVars, followVars, commandVars, indicatorVars, stack, xf, fm>>

\* AttitudeIndicator.reset: set_pitch(0), set_roll(0), update()
indicator_reset ==
    /\ ai.updates < MaxUpdates
    /\ ai' = update([ai EXCEPT !.pitch = set_pitch(0), !.roll = set_roll(0)])
    /\ UNCHANGED <<mapVars, followVars, commandVars, indicatorVars, stack, xf, fm>>

IndicatorRollStep == \E v \in IndicatorRolls : indicator_set_roll(v)
IndicatorPitchStep == \E v \in IndicatorPitches : indicator_set_pitch(v)

\* ------------------------------------------------------------------- steps
PositionStep == \E s \in PositionSamples : update_position_local(s)
AttitudeStep ==
    \E r \in RollInputs, p \in PitchInputs, y \in YawInputs : update_euler_attitude(r, p, y)
AttitudeSampleStep ==
    \E a \in AttitudeSamples : update_euler_attitude(a[1], a[2], a[3])
AltitudeStep == \E d \in AltitudeInputs : update_position_local([n |-> 5, e |-> 0, d |-> d])
AirborneStep == \E b \in BOOLEAN : update_airborne_state(b)
PanStep == \E p \in PanTargets : user_pan(p)
MaxTracksStep == \E m \in 0..MaxTracksBound : set_max_moving_map_tracks(m)
ContextMenuStep == \E p \in ClickPoints : contextMenuEvent(p)
TriggerStep ==
    \E i \in 1..Len(stack), a \in {"Goto", "Land", "Takeoff"} : menu_triggered(i, a)
DismissStep == \E i \in 1..Len(stack) : menu_dismissed(i)

Next ==
    \/ PositionStep
    \/ update_position_local_resume
    \/ clear_tracks
    \/ MaxTracksStep
    \/ toggle_follow_drone
    \/ PanStep
    \/ AttitudeStep
    \/ AttitudeSampleStep
    \/ clear
    \/ AirborneStep
    \/ ContextMenuStep
    \/ TriggerStep
    \/ DismissStep
    \/ contextMenuEvent_return
    \/ TransformSampleStep
    \/ transform_to_screen
    \/ transform_to_world
    \/ AltitudeStep
    \/ FloatPositionStep
    \/ clear_tracks_f
    \/ reset_f
    \/ IndicatorRollStep
    \/ IndicatorPitchStep
    \/ indicator_update
    \/ indicator_reset

Spec == Init /\ [][Next]_vars

\* the coordinate transform alone, on doubles
NextTransform == TransformSampleStep \/ transform_to_screen \/ transform_to_world
SpecTransform == Init /\ [][NextTransform]_vars

\* the track trail with a maximum that changes at runtime
NextTrail ==
    \/ PositionStep
    \/ update_position_local_resume
    \/ clear_tracks
    \/ MaxTracksStep
    \/ toggle_follow_drone
    \/ clear
SpecTrail == Init /\ [][NextTrail]_vars

\* the map and its view, with the maximum fixed at its initial value
NextFollow ==
    \/ PositionStep
    \/ update_position_local_resume
    \/ toggle_follow_drone
    \/ PanStep
    \/ clear_tracks
    \/ clear
SpecFollow == Init /\ [][NextFollow]_vars

\* the telemetry handlers, the buttons and the reset
NextHandlers ==
    \/ toggle_follow_drone
    \/ clear_tracks
    \/ PositionStep
    \/ update_position_local_resume
    \/ AttitudeSampleStep
    \/ AirborneStep
    \/ clear
SpecHandlers == Init /\ [][NextHandlers]_vars

\* the context menu and the airborne flag
NextCommand ==
    \/ AirborneStep
    \/ ContextMenuStep
    \/ TriggerStep
    \/ DismissStep
    \/ contextMenuEvent_return
    \/ toggle_follow_drone
SpecCommand == Init /\ [][NextCommand]_vars

\* the attitude handler and the reset
NextAttitude == AttitudeStep \/ clear
SpecAttitude == Init /\ [][NextAttitude]_vars

\* the map, the attitude indicator and the reset
NextReset ==
    \/ toggle_follow_drone
    \/ AttitudeSampleStep
    \/ PositionStep
    \/ update_position_local_resume
    \/ clear_tracks
    \/ clear
SpecReset == Init /\ [][NextReset]_vars

\* the position handler feeding the altitude widget, and the reset
NextAltitude == AltitudeStep \/ update_position_local_resume \/ clear
SpecAltitude == Init /\ [][NextAltitude]_vars

\* the drone icon and its trail on doubles
NextContinuity == FloatPositionStep \/ clear_tracks_f \/ reset_f
SpecContinuity == Init /\ [][NextContinuity]_vars

\* the attitude indicator on doubles
NextIndicator ==
    \/ IndicatorRollStep
    \/ IndicatorPitchStep
    \/ indicator_update
    \/ indicator_reset
SpecIndicator == Init /\ [][NextIndicator]_vars

\* ================================================================== claims
\* a step of update_drone_position: it is the only code that creates a line item
IsAppend == next_id' = next_id + 1
\* the position handler returning from processEvents()
IsResume == stack # <<>> /\ Top(stack).kind = "pos" /\ stack' = Pop(stack)

\* C1 (as claimed): after every position update the number of stored track
\* segments is at most max_moving_map_tracks, also when the maximum was lowered
\* between updates.
C1_TrailBound == [][IsAppend => Len(tracks') <= max_tracks']_vars

\* C1 (amended): a position update never leaves more segments than the larger of
\* the maximum and the number stored before it, and the bound
\* len(_tracks) <= max_moving_map_tracks, once true, is kept by every step that
\* does not lower the maximum.
C1_TrailBoundAmended ==
    [][/\ IsAppend => Len(tracks') <= Max(max_tracks, Len(tracks))
       /\ (Len(tracks) <= max_tracks /\ max_tracks' >= max_tracks)
             => Len(tracks') <= max_tracks']_vars

\* more segments were created than the maximum, and the list is full
C1_Witness == max_tracks >= 1 /\ appended > max_tracks /\ Len(tracks) = max_tracks

\* C2: with the maximum fixed, after N updates from an empty list the list holds
\* the min(N, max) most recently created segments in creation order, and the
\* canvas holds exactly those lines: what was evicted is the oldest, and it is
\* what was removed from the scene.
C2_FifoEviction ==
    /\ Len(tracks) = Min(appended, max_tracks)
    /\ \A i \in 1..Len(tracks) : tracks[i].id = next_id - Len(tracks) + i - 1
    /\ scene_lines = Ids(tracks)

\* three updates with a maximum of two: the first segment is gone
C2_Witness ==
    /\ max_tracks = 2
    /\ appended = 3
    /\ Len(tracks) = 2
    /\ tracks[1].id = next_id - 2

\* new is old with one segment added at the tail
AppendedOne(old, new) == Len(new) = Len(old) + 1 /\ SubSeq(new, 1, Len(old)) = old
\* new is old with one segment added at the tail and the head removed
AppendedEvictedHead(old, new) ==
    /\ Len(new) = Len(old)
    /\ \A i \in 1..(Len(old) - 1) : new[i] = old[i + 1]

\* C3: a change of the maximum removes no segment; a position update removes at
\* most one stored segment, the head; stored segments otherwise go only all at
\* once (clear_tracks, reset).
C3_NoRetroactiveTruncation ==
    [][/\ max_tracks' # max_tracks => (tracks' = tracks /\ scene_lines' = scene_lines)
       /\ IsAppend => (AppendedOne(tracks, tracks') \/ AppendedEvictedHead(tracks, tracks'))
       /\ tracks' # tracks =>
             \/ AppendedOne(tracks, tracks')
             \/ AppendedEvictedHead(tracks, tracks')
             \/ tracks' = <<>>]_vars

\* the maximum was lowered to zero and an update since then left two segments
C3_Witness == max_tracks = 0 /\ Len(tracks) >= 2 /\ appended > Len(tracks)

\* a menu was opened by this step
MenuOpened == Len(stack') = Len(stack) + 1 /\ Top(stack').kind = "menu"
GotoOrLandPublished ==
    \E m \in published : m.topic \in {"avr/fcm/action/goto/local", "avr/fcm/action/land"}

\* C4: a click offers exactly Goto and Land when the airborne flag is set, and
\* exactly Takeoff when it is not; no Goto or Land is published before an
\* airborne=true message was received.
C4_AirborneGated ==
    [][/\ MenuOpened =>
             Top(stack').offered =
                 IF drone_airborne THEN {"Goto", "Land"} ELSE {"Takeoff"}
       /\ GotoOrLandPublished' => ever_airborne']_vars

\* a Goto was published, the flag went back to false, and the menu now open
\* offers Takeoff alone
C4_Witness ==
    /\ \E m \in published : m.topic = "avr/fcm/action/goto/local"
    /\ ~drone_airborne
    /\ \E i \in 1..Len(stack) : stack[i].open /\ stack[i].offered = {"Takeoff"}

\* C5 (as claimed): panning is disabled exactly when the follow flag is set; a
\* position update recenters the view on the drone when following, and the
\* position handler never moves the view while the flag is not set.
C5_FollowRecentering ==
    [][/\ (drag_mode' = "NoDrag") <=> gw_follow_drone'
       /\ (IsResume /\ gw_follow_drone)
             => view_center' = drone_center(drone_pos', drone_icon_rect')
       /\ ((IsAppend \/ IsResume) /\ ~gw_follow_drone) => view_center' = view_center]_vars

\* C6: two toggles bring follow_drone, _follow_drone, the button text and the
\* panning mode back to what they are now.
C6_ToggleInvolution ==
    LET once == toggle_result(follow_drone, view_center)
        twice == toggle_result(once.follow_drone, once.gw.view_center)
    IN  /\ twice.follow_drone = follow_drone
        /\ twice.button_text = button_text
        /\ twice.gw.gw_follow_drone = gw_follow_drone
        /\ twice.gw.drag_mode = drag_mode
        /\ twice.gw.scroll_policy = scroll_policy
        /\ once.follow_drone # follow_drone
        /\ once.gw.gw_follow_drone # gw_follow_drone

\* not following, the view dragged away from the drone, a position handler
\* suspended in processEvents()
C6_Witness ==
    /\ button_text = "Follow Drone"
    /\ ~gw_follow_drone
    /\ view_center # drone_center(drone_pos, drone_icon_rect)
    /\ stack # <<>>

\* C7: the stored roll is in [-180, 180] and the stored pitch in [-25, 25];
\* values out of range are stored as the nearest bound; yaw reaches the icon's
\* rotation as given.
C7_Clamping ==
    /\ roll \in -180..180
    /\ pitch \in -25..25
    /\ set_roll(200) = 180
    /\ set_roll(-200) = -180
    /\ set_pitch(40) = 25
    /\ set_pitch(-40) = -25
    /\ \A v \in RollInputs : v \in -180..180 => set_roll(v) = v
    /\ \A v \in PitchInputs : v \in -25..25 => set_pitch(v) = v
    /\ \A y \in YawInputs : update_drone_attitude(y) = y
    /\ drone_rotation \in YawInputs

\* roll and pitch at opposite bounds, a yaw beyond a full turn
C7_Witness == roll = 180 /\ pitch = -25 /\ drone_rotation = 400

\* what clear() leaves in the map and the indicators
ResetValues ==
    /\ tracks = <<>>
    /\ scene_lines = {}
    /\ drone_center(drone_pos, drone_icon_rect) = <<0, 0>>
    /\ drone_rotation = 0
    /\ roll = 0
    /\ pitch = 0
    /\ altitude_number = 0

C9_NoReentrancy ==
    [][(stack # <<>> /\ Top(stack).kind = "pos") => stack' = Pop(stack)]_vars

\* each coordinate came back as it was sent
SameNE(a, b) == a[1] = b[1] /\ a[2] = b[2]
\* b is a or one of its two neighbours among the doubles
WithinOneUlp(a, b) == b \in {a, fsucc(a), fpred(a)}

\* C10 (as claimed): NED to scene and back returns the original (n, e).
C10_RoundTrip == xf.pc = "world" => SameNE(xf.ne, xf.back)

\* C10 (amended): NED to scene and back returns each coordinate to within one
\* unit in the last place, and exactly when its product with the scale is exact.
C10_RoundTripAmended ==
    xf.pc = "world" =>
        \A i \in 1..2 :
            /\ WithinOneUlp(xf.ne[i], xf.back[i])
            /\ fmul_exact(xf.ne[i], PIXELS_PER_METER) => xf.back[i] = xf.ne[i]

\* n came back exactly, e one unit off
C10_Witness ==
    /\ xf.pc = "world"
    /\ xf.back[1] = xf.ne[1]
    /\ xf.back[2] # xf.ne[2]
    /\ WithinOneUlp(xf.ne[2], xf.back[2])

\* t is a fraction in [0, 1]
InUnitInterval(t) == t.den > 0 /\ t.num >= 0 /\ t.num <= t.den
\* the altitude last passed to set_altitude: the display shows its negation
LastAltitude == -altitude_number

\* C11 (as claimed): the normalized altitude is in [0, 1]; normalize(0) = 0,
\* normalize(-20) = 1, normalize(-30) = 1 and normalize(10) = 0.5.
C11_NormalizeBoundaries ==
    /\ InUnitInterval(altitude_norm)
    /\ LastAltitude = 0 => altitude_norm.num = 0
    /\ LastAltitude = -20 => altitude_norm.num = altitude_norm.den
    /\ LastAltitude = -30 => altitude_norm.num = altitude_norm.den
    /\ LastAltitude = 10 => 2 * altitude_norm.num = altitude_norm.den

\* C11 (amended): the normalized altitude is in [0, 1]; normalize(0) = 0,
\* normalize(-20) = 1, normalize(-30) = 1 (clamped), normalize(-10) = 0.5, and
\* normalize(10) = 0: a positive altitude is below the ground and clamps to 0.
C11_NormalizeBoundariesAmended ==
    /\ InUnitInterval(altitude_norm)
    /\ LastAltitude = 0 => altitude_norm.num = 0
    /\ LastAltitude = -20 => altitude_norm.num = altitude_norm.den
    /\ LastAltitude = -30 => altitude_norm.num = altitude_norm.den
    /\ LastAltitude = -10 => 2 * altitude_norm.num = altitude_norm.den
    /\ LastAltitude = 10 => altitude_norm.num = 0

\* set_altitude(-30) has run: the icon is at the top of the canvas
C11_Witness ==
    /\ LastAltitude = -30
    /\ altitude_norm.num = altitude_norm.den
    /\ next_id >= 1

\* a step of update_drone_position on doubles
IsMoveF == Len(fm'.lines) = Len(fm.lines) + 1
\* the line most recently passed to canvas.addLine
LastLine(f) == f.lines[Len(f.lines)]
\* a is b to within one unit in the last place of k
CloseAt(a, b, k) == IF IsZero(k) THEN a = b ELSE WithinPow2(a, b, 1, k.e)
\* the samples (n=5, e=0) and (n=5, e=10)
Sample50 == <<FInt(5), FZero>>
Sample510 == <<FInt(5), FInt(10)>>

\* C12 (as claimed): a segment appended by a position update runs from the
\* marker's centre before the update to toScreen(n, e); afterwards the marker's
\* centre is that point, so the next segment starts where this one ends; the
\* first segment after start or reset starts at the origin; (5, 0) then (5, 10)
\* gives the segment (0, -250) to (500, -250); clear_tracks does not move the
\* marker.
C12_TrackContinuity ==
    [][LET half == half_rect_f(drone_icon_rect)
       IN  /\ IsMoveF =>
                 LET line == LastLine(fm')
                 IN  /\ line.from = drone_center_f(fm.pos, half)
                     /\ line.to = new_center_f(line.ne[1], line.ne[2])
                     /\ drone_center_f(fm'.pos, half) = line.to
                     /\ fm.lines = <<>> => line.from = OriginF
                     /\ fm.lines # <<>> => line.from = LastLine(fm).to
                     /\ (fm.lines # <<>> /\ LastLine(fm).ne = Sample50 /\ line.ne = Sample510)
                           => /\ line.from = <<FZero, FInt(-250)>>
                              /\ line.to = <<FInt(500), FInt(-250)>>
           /\ clear_tracks_f => (fm'.pos = fm.pos /\ fm'.lines = fm.lines)
           /\ reset_f => drone_center_f(fm'.pos, half) = OriginF]_vars

\* C12 (amended): as claimed, except that the marker's centre after the update,
\* and so the start of the next segment, is the new point to within one unit in
\* the last place of the icon's corner coordinate, and is the new point exactly
\* when the point and half the icon's size are whole numbers.
C12_TrackContinuityAmended ==
    [][LET half == half_rect_f(drone_icon_rect)
       IN  /\ IsMoveF =>
                 LET line == LastLine(fm')
                     center == drone_center_f(fm'.pos, half)
                 IN  /\ line.from = drone_center_f(fm.pos, half)
                     /\ line.to = new_center_f(line.ne[1], line.ne[2])
                     /\ \A i \in 1..2 :
                           /\ CloseAt(center[i], line.to[i], fm'.pos[i])
                           /\ (IsWhole(line.to[i]) /\ IsWhole(half[i]))
                                 => center[i] = line.to[i]
                     /\ fm.lines = <<>> => line.from = OriginF
                     /\ fm.lines # <<>> =>
                           \A i \in 1..2 :
                               CloseAt(line.from[i], LastLine(fm).to[i], fm.pos[i])
                     /\ (fm.lines # <<>> /\ LastLine(fm).ne = Sample50 /\ line.ne = Sample510)
                           => /\ line.from = <<FZero, FInt(-250)>>
                              /\ line.to = <<FInt(500), FInt(-250)>>
           /\ clear_tracks_f => (fm'.pos = fm.pos /\ fm'.lines = fm.lines)
           /\ reset_f => drone_center_f(fm'.pos, half) = OriginF]_vars

\* two segments since the last reset, the list cleared since, and the second
\* segment starts beside the end of the first
C12_Witness ==
    /\ Len(fm.lines) >= 2
    /\ fm.tracks = <<>>
    /\ fm.lines[2].from # fm.lines[1].to
    /\ \A i \in 1..2 : WithinPow2(fm.lines[2].from[i], fm.lines[1].to[i], 1, -50)

\* a call of update() completed in this step
IsUpdate == ai'.updates = ai.updates + 1

\* C13 (as claimed): after every completed update() the old delta is the new
\* delta, the new delta is the one computed from the stored roll and pitch, and
\* the face's accumulated offset is that delta; after reset() the offset is
\* (0, 0).
C13_DeltaConsistency ==
    [][/\ IsUpdate =>
             /\ ai'.old = ai'.new
             /\ ai'.new = face_delta(ai'.roll, ai'.pitch)
             /\ ai'.face = ai'.new
       /\ indicator_reset => ai'.face = OriginF]_vars

\* C13 (amended): after every completed update() the old delta is the new
\* delta and the new delta is the one computed from the stored roll and pitch;
\* the face's accumulated offset is that delta up to the rounding of the
\* relative moves, at most 2^-46 pixel for each update completed so far, and
\* exactly after the first update; after reset() the delta is (0, 0) and the
\* offset is (0, 0) up to the same rounding.
C13_DeltaConsistencyAmended ==
    [][/\ IsUpdate =>
             /\ ai'.old = ai'.new
             /\ ai'.new = face_delta(ai'.roll, ai'.pitch)
             /\ \A i \in 1..2 : WithinPow2(ai'.face[i], ai'.new[i], ai'.updates, -46)
             /\ ai'.updates = 1 => ai'.face = ai'.new
       /\ indicator_reset =>
             /\ ai'.new = OriginF
             /\ \A i \in 1..2 : WithinPow2(ai'.face[i], FZero, ai'.updates, -46)]_vars

\* after a reset: roll, pitch and both deltas are zero, and the face is left
\* beside where it was constructed
C13_Witness ==
    /\ ai.roll = 0
    /\ ai.pitch = 0
    /\ ai.old = OriginF
    /\ ai.new = OriginF
    /\ ai.updates >= 3
    /\ ai.face # OriginF

====
